---- MODULE Spec2Model ----
(***************************************************************************)
(* Split candidate manager of the SGB leaf-wise booster:                   *)
(* SplitCandidate, SplitCandidateHeap (the frontier, a heapq list ordered  *)
(* by the reversed comparison of max_gain) and SplitCandidateManager.      *)
(* Positions are 0-based as in the Python code; a list is a TLA+ sequence, *)
(* so position p of list h is h[p + 1].                                    *)
(***************************************************************************)
EXTENDS Naturals, Integers, Sequences, FiniteSets, Bags, TLC

VARIABLES heap, manager, last

vars == <<heap, manager, last>>

(* ------------------------------ bounds -------------------------------- *)

\* The largest number of candidates a heap is let to hold.
MaxHeap == 4

\* Tree nodes a caller may offer: node index, its sample selects and the
\* bucket of its best split.
Nodes ==
  { [node_index |-> 1, sample_selects |-> "m1", split_bucket |-> 0],
    [node_index |-> 2, sample_selects |-> "m2", split_bucket |-> 1] }

\* Gains a caller may offer (ordered numbers, none of them NaN).
Gains == {1, 2, 3}

\* Lengths of the lists handed to batch_push: the children of one split.
BatchLens == {0, 1, 2}

\* The devices handed to set_devices.
Parties == {"alice"}

None == "None"

(* --------------------------- SplitCandidate --------------------------- *)

SplitCandidateInfo(sample_selects, max_gain, split_bucket) ==
  [sample_selects |-> sample_selects, max_gain |-> max_gain,
   split_bucket |-> split_bucket]

SplitCandidate(node_index, sample_selects, max_gain, split_bucket) ==
  [node_index |-> node_index,
   info |-> SplitCandidateInfo(sample_selects, max_gain, split_bucket)]

\* SplitCandidate.__lt__ with the comparison the other way round.
LtNatural(self, other) == self.info.max_gain < other.info.max_gain

\* SplitCandidate.__lt__: a greater gain sorts first.
Lt(self, other) == self.info.max_gain > other.info.max_gain

\* SplitCandidate.__eq__
Eq(self, other) == self.info.max_gain = other.info.max_gain

(* ------------------------------- heapq -------------------------------- *)

RECURSIVE siftdown_loop(_, _, _, _)
siftdown_loop(h, startpos, pos, newitem) ==
  IF pos > startpos
    THEN LET parentpos == (pos - 1) \div 2
             parent == h[parentpos + 1]
         IN  IF Lt(newitem, parent)
               THEN siftdown_loop([h EXCEPT ![pos + 1] = parent],
                                  startpos, parentpos, newitem)
               ELSE [h EXCEPT ![pos + 1] = newitem]
    ELSE [h EXCEPT ![pos + 1] = newitem]

\* heapq._siftdown(heap, startpos, pos)
siftdown(h, startpos, pos) == siftdown_loop(h, startpos, pos, h[pos + 1])

\* The loop of _siftup that always goes down to the left child.
RECURSIVE siftup_loop_left(_, _, _, _, _)
siftup_loop_left(h, pos, childpos, endpos, newitem) ==
  IF childpos < endpos
    THEN siftup_loop_left([h EXCEPT ![pos + 1] = h[childpos + 1]],
                          childpos, 2 * childpos + 1, endpos, newitem)
    ELSE [heap |-> [h EXCEPT ![pos + 1] = newitem], pos |-> pos]

RECURSIVE siftup_loop(_, _, _, _, _)
siftup_loop(h, pos, childpos, endpos, newitem) ==
  IF childpos < endpos
    THEN LET rightpos == childpos + 1
             c == IF rightpos < endpos /\ ~Lt(h[childpos + 1], h[rightpos + 1])
                    THEN rightpos
                    ELSE childpos
         IN  siftup_loop([h EXCEPT ![pos + 1] = h[c + 1]],
                         c, 2 * c + 1, endpos, newitem)
    ELSE [heap |-> [h EXCEPT ![pos + 1] = newitem], pos |-> pos]

\* heapq._siftup(heap, pos)
siftup(h, pos) ==
  LET r == siftup_loop(h, pos, 2 * pos + 1, Len(h), h[pos + 1])
  IN  siftdown(r.heap, pos, r.pos)

\* heappush into a structure that merges entries that are equal (__eq__).
heappush_merging(h, item) ==
  IF \E k \in DOMAIN h : Eq(h[k], item)
    THEN h
    ELSE siftdown(Append(h, item), 0, Len(h))

\* list.append in place of heapq.heappush.
heappush_append(h, item) == Append(h, item)

\* heapq.heappush(heap, item)
heappush(h, item) == siftdown(Append(h, item), 0, Len(h))

\* heappop that answers an empty list with no value instead of an error.
heappop_quiet(h) ==
  IF h = <<>>
    THEN [heap |-> h, status |-> "ok", ret |-> <<>>]
    ELSE LET lastelt == h[Len(h)]
             rest == SubSeq(h, 1, Len(h) - 1)
         IN  IF rest # <<>>
               THEN [heap |-> siftup([rest EXCEPT ![1] = lastelt], 0),
                     status |-> "ok", ret |-> <<rest[1]>>]
               ELSE [heap |-> rest, status |-> "ok", ret |-> <<lastelt>>]

\* heappop that hands out the last entry of the list when it is equal
\* (__eq__) to the first.
heappop_tail(h) ==
  IF h = <<>>
    THEN [heap |-> h, status |-> "IndexError", ret |-> <<>>]
    ELSE LET lastelt == h[Len(h)]
             rest == SubSeq(h, 1, Len(h) - 1)
         IN  IF rest # <<>> /\ ~Eq(lastelt, rest[1])
               THEN [heap |-> siftup([rest EXCEPT ![1] = lastelt], 0),
                     status |-> "ok", ret |-> <<rest[1]>>]
               ELSE [heap |-> rest, status |-> "ok", ret |-> <<lastelt>>]

\* heapq.heappop(heap): list.pop() of an empty list raises IndexError.
heappop(h) ==
  IF h = <<>>
    THEN [heap |-> h, status |-> "IndexError", ret |-> <<>>]
    ELSE LET lastelt == h[Len(h)]
             rest == SubSeq(h, 1, Len(h) - 1)
         IN  IF rest # <<>>
               THEN [heap |-> siftup([rest EXCEPT ![1] = lastelt], 0),
                     status |-> "ok", ret |-> <<rest[1]>>]
               ELSE [heap |-> rest, status |-> "ok", ret |-> <<lastelt>>]

(* ------------------------- SplitCandidateHeap ------------------------- *)
(* Each method is an operator from the list self.heap (and the arguments)  *)
(* to the list after the call, how the call ended ("ok" or the exception   *)
(* raised) and what it returned (<<>> for no value).                       *)

SplitCandidateHeap_init == <<>>

SplitCandidateHeap_push(h, node_index, sample_selects, max_gain, split_bucket) ==
  [heap |-> heappush(h, SplitCandidate(node_index, sample_selects,
                                       max_gain, split_bucket)),
   status |-> "ok", ret |-> <<>>]

\* The loop of batch_push without the test of the flag.
RECURSIVE batch_push_loop_unfiltered(_, _, _, _, _, _, _)
batch_push_loop_unfiltered(h, node_indices, node_sample_selects, split_buckets, split_gains, gain_is_cost_effective, i) ==
  IF i >= Len(gain_is_cost_effective)
    THEN [heap |-> h, status |-> "ok", ret |-> <<>>]
    ELSE IF \/ i >= Len(node_indices)
            \/ i >= Len(node_sample_selects)
            \/ i >= Len(split_gains)
            \/ i >= Len(split_buckets)
      THEN [heap |-> h, status |-> "IndexError", ret |-> <<>>]
      ELSE batch_push_loop_unfiltered(
             SplitCandidateHeap_push(h, node_indices[i + 1],
                                     node_sample_selects[i + 1],
                                     split_gains[i + 1],
                                     split_buckets[i + 1]).heap,
             node_indices, node_sample_selects, split_buckets,
             split_gains, gain_is_cost_effective, i + 1)

\* The loop of batch_push from position i on. Indexing a list or an array
\* past its end raises IndexError and ends the call with the pushes made.
RECURSIVE batch_push_loop(_, _, _, _, _, _, _)
batch_push_loop(h, node_indices, node_sample_selects, split_buckets, split_gains, gain_is_cost_effective, i) ==
  IF i >= Len(gain_is_cost_effective)
    THEN [heap |-> h, status |-> "ok", ret |-> <<>>]
    ELSE IF gain_is_cost_effective[i + 1]
      THEN IF \/ i >= Len(node_indices)
              \/ i >= Len(node_sample_selects)
              \/ i >= Len(split_gains)
              \/ i >= Len(split_buckets)
             THEN [heap |-> h, status |-> "IndexError", ret |-> <<>>]
             ELSE batch_push_loop(
                    SplitCandidateHeap_push(h, node_indices[i + 1],
                                            node_sample_selects[i + 1],
                                            split_gains[i + 1],
                                            split_buckets[i + 1]).heap,
                    node_indices, node_sample_selects, split_buckets,
                    split_gains, gain_is_cost_effective, i + 1)
      ELSE batch_push_loop(h, node_indices, node_sample_selects, split_buckets,
                           split_gains, gain_is_cost_effective, i + 1)

SplitCandidateHeap_batch_push(h, node_indices, node_sample_selects, split_buckets, split_gains, gain_is_cost_effective) ==
  batch_push_loop(h, node_indices, node_sample_selects, split_buckets,
                  split_gains, gain_is_cost_effective, 0)

SplitCandidateHeap_pop(h) == heappop(h)

\* extract_best_split_info that hands out the gain in place of the bucket.
extract_best_split_info_gain(h) ==
  LET r == SplitCandidateHeap_pop(h)
  IN  IF r.status # "ok"
        THEN r
        ELSE LET best_candidate == r.ret[1]
             IN  [heap |-> r.heap, status |-> "ok",
                  ret |-> <<best_candidate.node_index,
                            best_candidate.info.sample_selects,
                            best_candidate.info.max_gain>>]

SplitCandidateHeap_extract_best_split_info(h) ==
  LET r == SplitCandidateHeap_pop(h)
  IN  IF r.status # "ok"
        THEN r
        ELSE LET best_candidate == r.ret[1]
             IN  [heap |-> r.heap, status |-> "ok",
                  ret |-> <<best_candidate.node_index,
                            best_candidate.info.sample_selects,
                            best_candidate.info.split_bucket>>]

\* extract_all_nodes that reads the list from its end.
extract_all_nodes_reversed(h) ==
  LET ids == [k \in 1..Len(h) |-> h[Len(h) + 1 - k].node_index]
      sample_selects == [k \in 1..Len(h) |-> h[Len(h) + 1 - k].info.sample_selects]
  IN  [heap |-> <<>>, status |-> "ok", ret |-> <<ids, sample_selects>>]

\* extract_all_nodes without the assignment self.heap = [].
extract_all_nodes_keeping(h) ==
  LET ids == [k \in 1..Len(h) |-> h[k].node_index]
      sample_selects == [k \in 1..Len(h) |-> h[k].info.sample_selects]
  IN  [heap |-> h, status |-> "ok", ret |-> <<ids, sample_selects>>]

SplitCandidateHeap_extract_all_nodes(h) ==
  LET ids == [k \in 1..Len(h) |-> h[k].node_index]
      sample_selects == [k \in 1..Len(h) |-> h[k].info.sample_selects]
  IN  [heap |-> <<>>, status |-> "ok", ret |-> <<ids, sample_selects>>]

\* reset that drops the first candidate only.
reset_first(h) ==
  [heap |-> IF h = <<>> THEN h ELSE Tail(h), status |-> "ok", ret |-> <<>>]

SplitCandidateHeap_reset(h) == [heap |-> <<>>, status |-> "ok", ret |-> <<>>]

(* ------------------------ SplitCandidateManager ----------------------- *)
(* self.heap is None until set_devices: it is modelled as a sequence that  *)
(* is empty for None and holds the list of the SplitCandidateHeap once     *)
(* there is one. A method called on None raises AttributeError.            *)

\* __init__ that builds the heap itself.
SplitCandidateManager_init_with_heap ==
  [params |-> None, label_holder |-> None, heap |-> <<SplitCandidateHeap_init>>]

SplitCandidateManager_init == [params |-> None, label_holder |-> None, heap |-> <<>>]

SplitCandidateManager_set_devices(self, devices) ==
  [self EXCEPT !.label_holder = devices.label_holder,
               !.heap = <<SplitCandidateHeap_init>>]

\* self.heap.<method>(...) when self.heap is None.
NoHeap(self) == [manager |-> self, status |-> "AttributeError", ret |-> <<>>]

\* self.heap.<method>(...) on the heap the manager holds: res is what the
\* method of SplitCandidateHeap did with its list.
Held(self, res) ==
  [manager |-> [self EXCEPT !.heap = <<res.heap>>],
   status |-> res.status, ret |-> res.ret]

\* batch_push that hands split_gains and split_buckets on in each other's
\* place.
SplitCandidateManager_batch_push_swapped(self, node_indices, node_sample_selects, split_buckets, split_gains, gain_is_cost_effective) ==
  IF self.heap = <<>>
    THEN NoHeap(self)
    ELSE Held(self, SplitCandidateHeap_batch_push(self.heap[1], node_indices,
                      node_sample_selects, split_gains, split_buckets,
                      gain_is_cost_effective))

SplitCandidateManager_batch_push(self, node_indices, node_sample_selects, split_buckets, split_gains, gain_is_cost_effective) ==
  IF self.heap = <<>>
    THEN NoHeap(self)
    ELSE Held(self, SplitCandidateHeap_batch_push(self.heap[1], node_indices,
                      node_sample_selects, split_buckets, split_gains,
                      gain_is_cost_effective))

SplitCandidateManager_push(self, node_index, sample_selects, max_gain, split_bucket) ==
  IF self.heap = <<>>
    THEN NoHeap(self)
    ELSE Held(self, SplitCandidateHeap_push(self.heap[1], node_index,
                      sample_selects, max_gain, split_bucket))

SplitCandidateManager_extract_best_split_info(self) ==
  IF self.heap = <<>>
    THEN NoHeap(self)
    ELSE Held(self, SplitCandidateHeap_extract_best_split_info(self.heap[1]))

SplitCandidateManager_extract_all_nodes(self) ==
  IF self.heap = <<>>
    THEN NoHeap(self)
    ELSE Held(self, SplitCandidateHeap_extract_all_nodes(self.heap[1]))

SplitCandidateManager_reset(self) ==
  IF self.heap = <<>>
    THEN NoHeap(self)
    ELSE Held(self, SplitCandidateHeap_reset(self.heap[1]))

(* ------------------------- the callers' inputs ------------------------ *)

ArgNames == {"node_indices", "node_sample_selects", "split_buckets",
             "split_gains", "gain_is_cost_effective"}

\* The list a caller hands over for the argument called name: one entry per
\* node, the last entry left out when name is the argument given too short.
Arg(name, full, short) ==
  IF name = short /\ full # <<>> THEN SubSeq(full, 1, Len(full) - 1) ELSE full

\* The five lists of one batch_push call: ns the nodes, gs their gains and fs
\* their flags of cost effectiveness.
BatchArgs(ns, gs, fs, short) ==
  [node_indices |->
     Arg("node_indices", [k \in 1..Len(ns) |-> ns[k].node_index], short),
   node_sample_selects |->
     Arg("node_sample_selects", [k \in 1..Len(ns) |-> ns[k].sample_selects], short),
   split_buckets |->
     Arg("split_buckets", [k \in 1..Len(ns) |-> ns[k].split_bucket], short),
   split_gains |-> Arg("split_gains", gs, short),
   gain_is_cost_effective |-> Arg("gain_is_cost_effective", fs, short)]

\* The nodes of one batch are different nodes.
NodeLists(n) ==
  { ns \in [1..n -> Nodes] : \A j, k \in 1..n : ns[j] = ns[k] => j = k }

BatchInputs ==
  UNION { { BatchArgs(ns, gs, fs, short) :
              ns \in NodeLists(n), gs \in [1..n -> Gains],
              fs \in [1..n -> BOOLEAN], short \in ArgNames \cup {None} } :
          n \in BatchLens }

SameLength(a) ==
  \A x, y \in ArgNames : Len(a[x]) = Len(a[y])

\* Positions (from 1) of the flags that are true.
Effective(a) ==
  { k \in 1..Len(a.gain_is_cost_effective) : a.gain_is_cost_effective[k] }

\* The candidates a batch_push call is asked to insert: the entries of the
\* lists at the positions whose flag is true, in the order of the lists.
RECURSIVE Asked(_, _)
Asked(a, k) ==
  IF k > Len(a.gain_is_cost_effective)
    THEN <<>>
    ELSE IF /\ a.gain_is_cost_effective[k]
            /\ k <= Len(a.node_indices) /\ k <= Len(a.node_sample_selects)
            /\ k <= Len(a.split_gains) /\ k <= Len(a.split_buckets)
      THEN <<[node_index |-> a.node_indices[k],
              info |-> [sample_selects |-> a.node_sample_selects[k],
                        max_gain |-> a.split_gains[k],
                        split_bucket |-> a.split_buckets[k]]]>>
           \o Asked(a, k + 1)
      ELSE Asked(a, k + 1)

\* What the caller of batch_push knows of its own request.
Request(a) ==
  [asked |-> Asked(a, 1), flags |-> Cardinality(Effective(a)),
   same_length |-> SameLength(a)]

\* What a call leaves for the caller to see: the method, what was asked for,
\* how the call ended and what it returned.
Outcome(op, a, r) == [op |-> op, args |-> a, status |-> r.status, ret |-> r.ret]

(* -------------------- calls on a SplitCandidateHeap ------------------- *)

push(node, max_gain) ==
  /\ Len(heap) < MaxHeap
  /\ LET r == SplitCandidateHeap_push(heap, node.node_index, node.sample_selects,
                                      max_gain, node.split_bucket)
     IN  /\ heap' = r.heap
         /\ last' = Outcome("push", <<node, max_gain>>, r)
  /\ UNCHANGED manager

batch_push(a) ==
  /\ Len(heap) + Cardinality(Effective(a)) <= MaxHeap
  /\ LET r == SplitCandidateHeap_batch_push(heap, a.node_indices,
                a.node_sample_selects, a.split_buckets, a.split_gains,
                a.gain_is_cost_effective)
     IN  /\ heap' = r.heap
         /\ last' = Outcome("batch_push", Request(a), r)
  /\ UNCHANGED manager

pop ==
  /\ LET r == SplitCandidateHeap_pop(heap)
     IN  /\ heap' = r.heap
         /\ last' = Outcome("pop", <<>>, r)
  /\ UNCHANGED manager

extract_best_split_info ==
  /\ LET r == SplitCandidateHeap_extract_best_split_info(heap)
     IN  /\ heap' = r.heap
         /\ last' = Outcome("extract_best_split_info", <<>>, r)
  /\ UNCHANGED manager

extract_all_nodes ==
  /\ LET r == SplitCandidateHeap_extract_all_nodes(heap)
     IN  /\ heap' = r.heap
         /\ last' = Outcome("extract_all_nodes", <<>>, r)
  /\ UNCHANGED manager

reset ==
  /\ LET r == SplitCandidateHeap_reset(heap)
     IN  /\ heap' = r.heap
         /\ last' = Outcome("reset", <<>>, r)
  /\ UNCHANGED manager

Init ==
  /\ heap = SplitCandidateHeap_init
  /\ manager = SplitCandidateManager_init
  /\ last = [op |-> "init", args |-> <<>>, status |-> "ok", ret |-> <<>>]

Next ==
  \/ \E node \in Nodes, max_gain \in Gains : push(node, max_gain)
  \/ \E a \in BatchInputs : batch_push(a)
  \/ pop
  \/ extract_best_split_info
  \/ extract_all_nodes
  \/ reset

Spec == Init /\ [][Next]_vars

(* ------------------ calls on a SplitCandidateManager ------------------ *)

\* The number of candidates of the heap the manager holds (0 when None).
Pending == IF manager.heap = <<>> THEN 0 ELSE Len(manager.heap[1])

set_devices(devices) ==
  /\ manager' = SplitCandidateManager_set_devices(manager, devices)
  /\ last' = [op |-> "set_devices", args |-> <<devices>>, status |-> "ok",
              ret |-> <<>>]
  /\ UNCHANGED heap

Manager_push(node, max_gain) ==
  /\ Pending < MaxHeap
  /\ LET r == SplitCandidateManager_push(manager, node.node_index,
                node.sample_selects, max_gain, node.split_bucket)
     IN  /\ manager' = r.manager
         /\ last' = Outcome("push", <<node, max_gain>>, r)
  /\ UNCHANGED heap

Manager_batch_push(a) ==
  /\ Pending + Cardinality(Effective(a)) <= MaxHeap
  /\ LET r == SplitCandidateManager_batch_push(manager, a.node_indices,
                a.node_sample_selects, a.split_buckets, a.split_gains,
                a.gain_is_cost_effective)
     IN  /\ manager' = r.manager
         /\ last' = Outcome("batch_push", Request(a), r)
  /\ UNCHANGED heap

Manager_extract_best_split_info ==
  /\ LET r == SplitCandidateManager_extract_best_split_info(manager)
     IN  /\ manager' = r.manager
         /\ last' = Outcome("extract_best_split_info", <<>>, r)
  /\ UNCHANGED heap

Manager_extract_all_nodes ==
  /\ LET r == SplitCandidateManager_extract_all_nodes(manager)
     IN  /\ manager' = r.manager
         /\ last' = Outcome("extract_all_nodes", <<>>, r)
  /\ UNCHANGED heap

Manager_reset ==
  /\ LET r == SplitCandidateManager_reset(manager)
     IN  /\ manager' = r.manager
         /\ last' = Outcome("reset", <<>>, r)
  /\ UNCHANGED heap

ManagerNext ==
  \/ \E p \in Parties : set_devices([label_holder |-> p])
  \/ \E node \in Nodes, max_gain \in Gains : Manager_push(node, max_gain)
  \/ \E a \in BatchInputs : Manager_batch_push(a)
  \/ Manager_extract_best_split_info
  \/ Manager_extract_all_nodes
  \/ Manager_reset

\* The calls made on a manager, bound or not.
ManagerSpec == Init /\ [][ManagerNext]_vars

(* ------------------------------ properties ---------------------------- *)

Gain(candidate) == candidate.info.max_gain

Range(s) == { s[k] : k \in DOMAIN s }

\* The multiset of the entries of a list.
SeqToBag(s) == [x \in Range(s) |-> Cardinality({ k \in DOMAIN s : s[k] = x })]

\* The step is a call of method op that returned normally.
Returned(op) == last'.op = op /\ last'.status = "ok"

\* C1: a pop of a heap that holds candidates removes and returns one of them
\* whose gain is at least the gain of every candidate held at that moment,
\* whatever calls came before; a pop that follows a pop returns a gain that is
\* not greater than the one before.
C1_PopReturnsMaxGain ==
  [][ (last'.op = "pop" /\ heap # <<>>) =>
        /\ last'.status = "ok"
        /\ Len(last'.ret) = 1
        /\ \E k \in DOMAIN heap : heap[k] = last'.ret[1]
        /\ \A k \in DOMAIN heap : Gain(last'.ret[1]) >= Gain(heap[k])
        /\ SeqToBag(heap') (+) SeqToBag(last'.ret) = SeqToBag(heap)
        /\ (last.op = "pop" /\ last.status = "ok"
              => Gain(last'.ret[1]) <= Gain(last.ret[1])) ]_vars

\* A pop of a heap of four has returned a gain above one of those left.
C1_Witness ==
  /\ last.op = "pop" /\ last.status = "ok"
  /\ Len(heap) = 3
  /\ \E k \in DOMAIN heap : Gain(heap[k]) < Gain(last.ret[1])
  /\ \E k \in DOMAIN heap : Gain(heap[k]) = Gain(last.ret[1])

\* C2: a batch_push whose five lists have one length returns normally, and a
\* batch_push that returns normally adds to the heap the candidates at the
\* positions whose flag is true, each made of the entries of that position,
\* and nothing else: the heap grows by the number of true flags.
C2_BatchPushAdmitsFlagged ==
  [][ (last'.op = "batch_push") =>
        /\ last'.args.same_length => last'.status = "ok"
        /\ last'.status = "ok" =>
             /\ SeqToBag(heap') = SeqToBag(heap) (+) SeqToBag(last'.args.asked)
             /\ Len(heap') = Len(heap) + last'.args.flags ]_vars

\* A batch_push of lists of one length has inserted one candidate of two.
C2_Witness ==
  /\ last.op = "batch_push" /\ last.status = "ok"
  /\ last.args.same_length
  /\ last.args.flags = 1 /\ Len(last.args.asked) = 1
  /\ Len(heap) = 3
  /\ \E k \in DOMAIN heap : heap[k] = last.args.asked[1]

\* The pairs (node index, sample selects) of the candidates of a list.
Pairs(h) == [k \in DOMAIN h |-> <<h[k].node_index, h[k].info.sample_selects>>]

\* C3: extract_all_nodes returns two lists of the length of the heap, the
\* node index and the sample selects of each candidate held at one position
\* of both and each candidate once, and leaves the heap empty; an
\* extract_all_nodes right after it returns two empty lists and a pop right
\* after it fails.
C3_ExtractAllDrains ==
  [][ /\ (last'.op = "extract_all_nodes") =>
           /\ last'.status = "ok"
           /\ heap' = <<>>
           /\ Len(last'.ret) = 2
           /\ Len(last'.ret[1]) = Len(heap) /\ Len(last'.ret[2]) = Len(heap)
           /\ SeqToBag([k \in DOMAIN heap |-> <<last'.ret[1][k], last'.ret[2][k]>>])
                = SeqToBag(Pairs(heap))
      /\ (last.op = "extract_all_nodes" /\ last'.op = "extract_all_nodes")
           => last'.ret = << <<>>, <<>> >>
      /\ (last.op = "extract_all_nodes" /\ last'.op = "pop")
           => last'.status = "IndexError" ]_vars

\* extract_all_nodes has returned the two nodes of a heap of four.
C3_Witness ==
  /\ last.op = "extract_all_nodes"
  /\ Len(last.ret[1]) = 4
  /\ Range(last.ret[1]) = {1, 2}
  /\ heap = <<>>

\* C4: reset returns nothing and leaves the heap empty whatever it held; on
\* an empty heap, and so when called twice in a row, it changes nothing.
C4_ResetEmpties ==
  [][ (last'.op = "reset") =>
        /\ last'.status = "ok" /\ last'.ret = <<>>
        /\ heap' = <<>>
        /\ (heap = <<>> \/ last.op = "reset") => heap' = heap ]_vars

\* reset has returned.
C4_Witness ==
  /\ last.op = "reset" /\ heap = <<>> /\ last.ret = <<>>

\* C5: pop and extract_best_split_info on a heap without candidates raise
\* the error of an empty heap (IndexError), return nothing and leave the
\* heap empty; a push after the failure is accepted and the heap holds its
\* candidate.
C5_EmptyHeapFails ==
  [][ /\ (last'.op \in {"pop", "extract_best_split_info"} /\ heap = <<>>) =>
           /\ last'.status = "IndexError"
           /\ last'.ret = <<>>
           /\ heap' = <<>>
      /\ (last.status = "IndexError" /\ heap = <<>> /\ last'.op = "push") =>
           /\ last'.status = "ok"
           /\ Len(heap') = 1 ]_vars

\* A pop has failed on a heap emptied by the calls before it.
C5_Witness ==
  /\ last.op \in {"pop", "extract_best_split_info"}
  /\ last.status = "IndexError"
  /\ heap = <<>>

\* C6: a batch_push whose five lists do not have one length fails.
C6_MismatchedLengthsFail ==
  (last.op = "batch_push" /\ ~last.args.same_length) => last.status # "ok"

\* C7: a call that fails leaves the heap, and the heap of the manager, as
\* they were before the call.
C7_FailedCallChangesNothing ==
  [][ last'.status # "ok" => (heap' = heap /\ manager' = manager) ]_vars

ManagerOps ==
  {"push", "batch_push", "extract_best_split_info", "extract_all_nodes", "reset"}

\* set_devices has been called: it is the one place that sets label_holder.
Bound == manager.label_holder # None

\* C8: a call of push, batch_push, extract_best_split_info, extract_all_nodes
\* or reset on a manager before set_devices fails with the error of the
\* missing heap (AttributeError) and changes nothing; once set_devices has
\* been called no such call fails with that error.
C8_UnboundManagerFails ==
  [][ (last'.op \in ManagerOps) =>
        /\ ~Bound =>
             /\ last'.status = "AttributeError"
             /\ last'.ret = <<>>
             /\ manager' = manager /\ heap' = heap
        /\ Bound =>
             /\ last'.status # "AttributeError"
             /\ manager'.heap # <<>> ]_vars

\* A call on a manager without devices has failed.
C8_Witness ==
  /\ last.op \in ManagerOps
  /\ last.status = "AttributeError"
  /\ ~Bound

\* The triple (node index, sample selects, bucket) of a candidate.
Triple(candidate) ==
  <<candidate.node_index, candidate.info.sample_selects,
    candidate.info.split_bucket>>

\* C9: extract_best_split_info on a heap that holds candidates leaves the
\* list that pop leaves and returns three values: the node index, the sample
\* selects and the bucket of the candidate pop returns, which are those of
\* one node as it was pushed; the gain is not among them.
C9_ExtractBestIsPopTriple ==
  [][ (last'.op = "extract_best_split_info" /\ heap # <<>>) =>
        /\ last'.status = "ok"
        /\ heap' = SplitCandidateHeap_pop(heap).heap
        /\ Len(last'.ret) = 3
        /\ last'.ret = Triple(SplitCandidateHeap_pop(heap).ret[1])
        /\ [node_index |-> last'.ret[1], sample_selects |-> last'.ret[2],
            split_bucket |-> last'.ret[3]] \in Nodes
        /\ \E k \in DOMAIN heap :
             /\ last'.ret = Triple(heap[k])
             /\ \A j \in DOMAIN heap : Gain(heap[k]) >= Gain(heap[j])
             /\ SeqToBag(heap') (+) SeqToBag(<<heap[k]>>) = SeqToBag(heap) ]_vars

\* extract_best_split_info has returned the triple of node 2 out of a heap
\* that also held node 1.
C9_Witness ==
  /\ last.op = "extract_best_split_info" /\ last.status = "ok"
  /\ last.ret = <<2, "m2", 1>>
  /\ Len(heap) = 3
  /\ \E k \in DOMAIN heap : heap[k].node_index = 1

\* The candidate a push call is asked to insert.
Pushed(a) ==
  SplitCandidate(a[1].node_index, a[1].sample_selects, a[2], a[1].split_bucket)

\* C10: the heap is a multiset. A push adds its candidate once more, equal
\* gains and equal node indices included; a batch_push adds the candidates
\* asked for up to the position it reached; pop and extract_best_split_info
\* succeed exactly when the heap holds a candidate and take out one; the
\* other calls empty the heap. So n pops succeed after n insertions into an
\* empty heap and the next one fails.
C10_HeapIsMultiset ==
  [][ /\ last'.op = "push" =>
           /\ SeqToBag(heap') = SeqToBag(heap) (+) SeqToBag(<<Pushed(last'.args)>>)
           /\ Len(heap') = Len(heap) + 1
      /\ last'.op = "batch_push" =>
           \E m \in 0..Len(last'.args.asked) :
             /\ last'.status = "ok" => m = Len(last'.args.asked)
             /\ Len(heap') = Len(heap) + m
             /\ SeqToBag(heap') =
                  SeqToBag(heap) (+) SeqToBag(SubSeq(last'.args.asked, 1, m))
      /\ last'.op \in {"pop", "extract_best_split_info"} =>
           /\ last'.status = "ok" <=> heap # <<>>
           /\ last'.status = "ok" =>
                /\ Len(heap') = Len(heap) - 1
                /\ \E k \in DOMAIN heap :
                     SeqToBag(heap') (+) SeqToBag(<<heap[k]>>) = SeqToBag(heap)
           /\ last'.status # "ok" => heap' = heap
      /\ last'.op \in {"extract_all_nodes", "reset"} => heap' = <<>> ]_vars

\* A pop has left a heap that holds one candidate twice and a third one of
\* the same gain.
C10_Witness ==
  /\ last.op = "pop" /\ last.status = "ok"
  /\ Len(heap) = 3
  /\ \E j, k \in DOMAIN heap : j # k /\ heap[j] = heap[k]
  /\ \E j, k \in DOMAIN heap : heap[j] # heap[k] /\ Gain(heap[j]) = Gain(heap[k])

\* The gains of the candidates that pops hand out until the list is empty.
RECURSIVE PopAll(_)
PopAll(h) ==
  IF h = <<>>
    THEN <<>>
    ELSE LET r == SplitCandidateHeap_pop(h)
         IN  <<Gain(r.ret[1])>> \o PopAll(r.heap)

\* The list s without its entry at position k (from 1).
Without(s, k) == SubSeq(s, 1, k - 1) \o SubSeq(s, k + 1, Len(s))

\* The gains of a list of candidates, the greatest first: a function of the
\* multiset of the gains alone.
RECURSIVE Descending(_)
Descending(h) ==
  IF h = <<>>
    THEN <<>>
    ELSE LET k == CHOOSE k \in DOMAIN h :
                    \A j \in DOMAIN h : Gain(h[k]) >= Gain(h[j])
         IN  <<Gain(h[k])>> \o Descending(Without(h, k))

\* C11: whatever the order in which push and batch_push inserted the
\* candidates the heap holds, popping until it is empty hands out their gains
\* from the greatest to the least: one sequence for one multiset, so for
\* every permutation of the insertions.
C11_InsertionOrderIrrelevant == PopAll(heap) = Descending(heap)

\* A heap of four that holds its candidates in an order that is not the
\* order of their gains, built by a push.
C11_Witness ==
  /\ last.op \in {"push", "batch_push"}
  /\ Len(heap) = 4
  /\ Gain(heap[2]) < Gain(heap[3])
  /\ Gain(heap[3]) < Gain(heap[1])

\* The two states of a heap one can tell from outside.
State(h) == IF h = <<>> THEN "EMPTY" ELSE "NON_EMPTY"

\* C12: a push ends in NON_EMPTY; a batch_push that returns ends in NON_EMPTY
\* when a flag is true and leaves the heap as it was when none is; a pop of a
\* NON_EMPTY heap ends in EMPTY exactly when it took the one candidate held;
\* extract_all_nodes and reset end in EMPTY; and whatever calls came before,
\* a push succeeds and a pop after it succeeds.
C12_EmptyNonEmptyMoves ==
  [][ /\ last'.op = "push" => State(heap') = "NON_EMPTY"
      /\ (last'.op = "batch_push" /\ last'.status = "ok") =>
           /\ last'.args.flags >= 1 => State(heap') = "NON_EMPTY"
           /\ last'.args.flags = 0 => heap' = heap
      /\ (last'.op = "pop" /\ State(heap) = "NON_EMPTY") =>
           /\ last'.status = "ok"
           /\ State(heap') = "EMPTY" <=> Len(heap) = 1
      /\ last'.op \in {"extract_all_nodes", "reset"} => State(heap') = "EMPTY"
      /\ last'.op = "push" =>
           /\ last'.status = "ok"
           /\ SplitCandidateHeap_pop(heap').status = "ok" ]_vars

\* A pop has taken the last candidate of the heap.
C12_Witness ==
  /\ last.op = "pop" /\ last.status = "ok"
  /\ State(heap) = "EMPTY"

\* C13: what pop and extract_best_split_info hand out is fixed by the list
\* the calls before have built: it is the candidate at position 0, and no
\* candidate of the list has a greater gain. So of several candidates of the
\* greatest gain one of them is handed out, the same one whenever the same
\* calls came before, and never a candidate of a lower gain.
C13_ExtractionFixedByList ==
  [][ (last'.op \in {"pop", "extract_best_split_info"} /\ heap # <<>>) =>
        /\ last'.status = "ok"
        /\ last'.op = "pop" => last'.ret = <<heap[1]>>
        /\ last'.op = "extract_best_split_info" => last'.ret = Triple(heap[1])
        /\ \A k \in DOMAIN heap : Gain(heap[1]) >= Gain(heap[k]) ]_vars

\* A pop has handed out one of two nodes of the greatest gain while a
\* candidate of a lower gain stays in the heap.
C13_Witness ==
  /\ last.op = "pop" /\ last.status = "ok"
  /\ \E k \in DOMAIN heap :
       /\ Gain(heap[k]) = Gain(last.ret[1])
       /\ heap[k].node_index # last.ret[1].node_index
  /\ \E k \in DOMAIN heap : Gain(heap[k]) < Gain(last.ret[1])

(* ------- the same calls on a manager and on a SplitCandidateHeap ------ *)
(* A manager, once set_devices has given it its heap, and a heap of its    *)
(* own receive the same calls with the same arguments. The manager has no  *)
(* pop, so the calls are the five methods both have.                       *)

\* What the two calls leave for the caller to see.
Outcomes(op, a, r, m) ==
  [op |-> op, args |-> a, status |-> r.status, ret |-> r.ret,
   manager_status |-> m.status, manager_ret |-> m.ret]

Pair_set_devices(devices) ==
  /\ manager.label_holder = None
  /\ set_devices(devices)

Pair_push(node, max_gain) ==
  /\ manager.label_holder # None
  /\ Len(heap) < MaxHeap
  /\ LET r == SplitCandidateHeap_push(heap, node.node_index, node.sample_selects,
                                      max_gain, node.split_bucket)
         m == SplitCandidateManager_push(manager, node.node_index,
                node.sample_selects, max_gain, node.split_bucket)
     IN  /\ heap' = r.heap
         /\ manager' = m.manager
         /\ last' = Outcomes("push", <<node, max_gain>>, r, m)

Pair_batch_push(a) ==
  /\ manager.label_holder # None
  /\ Len(heap) + Cardinality(Effective(a)) <= MaxHeap
  /\ LET r == SplitCandidateHeap_batch_push(heap, a.node_indices,
                a.node_sample_selects, a.split_buckets, a.split_gains,
                a.gain_is_cost_effective)
         m == SplitCandidateManager_batch_push(manager, a.node_indices,
                a.node_sample_selects, a.split_buckets, a.split_gains,
                a.gain_is_cost_effective)
     IN  /\ heap' = r.heap
         /\ manager' = m.manager
         /\ last' = Outcomes("batch_push", Request(a), r, m)

Pair_extract_best_split_info ==
  /\ manager.label_holder # None
  /\ LET r == SplitCandidateHeap_extract_best_split_info(heap)
         m == SplitCandidateManager_extract_best_split_info(manager)
     IN  /\ heap' = r.heap
         /\ manager' = m.manager
         /\ last' = Outcomes("extract_best_split_info", <<>>, r, m)

Pair_extract_all_nodes ==
  /\ manager.label_holder # None
  /\ LET r == SplitCandidateHeap_extract_all_nodes(heap)
         m == SplitCandidateManager_extract_all_nodes(manager)
     IN  /\ heap' = r.heap
         /\ manager' = m.manager
         /\ last' = Outcomes("extract_all_nodes", <<>>, r, m)

Pair_reset ==
  /\ manager.label_holder # None
  /\ LET r == SplitCandidateHeap_reset(heap)
         m == SplitCandidateManager_reset(manager)
     IN  /\ heap' = r.heap
         /\ manager' = m.manager
         /\ last' = Outcomes("reset", <<>>, r, m)

PairNext ==
  \/ \E p \in Parties : Pair_set_devices([label_holder |-> p])
  \/ \E node \in Nodes, max_gain \in Gains : Pair_push(node, max_gain)
  \/ \E a \in BatchInputs : Pair_batch_push(a)
  \/ Pair_extract_best_split_info
  \/ Pair_extract_all_nodes
  \/ Pair_reset

\* One set_devices, then the same calls on the manager and on a heap.
PairSpec == Init /\ [][PairNext]_vars

\* C14: after any calls of push, batch_push, extract_best_split_info,
\* extract_all_nodes and reset, the heap of the bound manager holds the list
\* a SplitCandidateHeap given the same calls holds, the last call ended the
\* same way and returned the same on both, and the manager holds nothing
\* besides its heap and the device it was given.
C14_ManagerDelegates ==
  Bound =>
    /\ manager.heap = <<heap>>
    /\ manager.params = None /\ manager.label_holder \in Parties
    /\ last.op \in ManagerOps =>
         /\ last.manager_status = last.status
         /\ last.manager_ret = last.ret

\* The manager and the heap have both handed out one candidate of three
\* that a batch_push had a part in.
C14_Witness ==
  /\ Bound
  /\ last.op = "extract_best_split_info"
  /\ last.manager_status = "ok" /\ Len(last.manager_ret) = 3
  /\ Len(manager.heap[1]) = 2
  /\ \E k \in DOMAIN heap : heap[k].node_index # last.ret[1]

\* The calls of a manager that take candidates out of its heap.
Removing == {"extract_best_split_info", "extract_all_nodes", "reset"}

\* C15: the candidates the heap of a bound manager holds stay in the heap the
\* manager holds through every call that is not one of those that take
\* candidates out, a further set_devices included.
C15_PendingStay ==
  [][ (Bound /\ last'.op \notin Removing) =>
        /\ manager'.heap # <<>>
        /\ SeqToBag(manager.heap[1]) \sqsubseteq SeqToBag(manager'.heap[1]) ]_vars

\* C16: on a heap that holds candidates, the first node index and the first
\* sample selects extract_all_nodes returns are those extract_best_split_info
\* would have returned on the same list: those of a candidate than which no
\* candidate of the list has a greater gain.
C16_DrainStartsWithBest ==
  [][ (last'.op = "extract_all_nodes" /\ heap # <<>>) =>
        LET best == SplitCandidateHeap_extract_best_split_info(heap).ret
        IN  /\ last'.ret[1][1] = best[1]
            /\ last'.ret[2][1] = best[2]
            /\ \E k \in DOMAIN heap :
                 /\ heap[k].node_index = last'.ret[1][1]
                 /\ heap[k].info.sample_selects = last'.ret[2][1]
                 /\ \A j \in DOMAIN heap : Gain(heap[k]) >= Gain(heap[j]) ]_vars

\* extract_all_nodes has returned four nodes, node 2 first and then three
\* times node 1.
C16_Witness ==
  /\ last.op = "extract_all_nodes" /\ last.status = "ok"
  /\ last.ret[1] = <<2, 1, 1, 1>>
  /\ last.ret[2] = <<"m2", "m1", "m1", "m1">>

\* C17: in every state the list is a heap under the reversed comparison: the
\* gain at position (k - 1) div 2 is at least the gain at position k for
\* every position k > 0, so no gain of the list is above that of position 0.
C17_HeapProperty ==
  /\ \A k \in 1..(Len(heap) - 1) :
       Gain(heap[((k - 1) \div 2) + 1]) >= Gain(heap[k + 1])
  /\ \A k \in DOMAIN heap : Gain(heap[1]) >= Gain(heap[k])

\* A pop of a heap of four has left three candidates with the least gain at
\* position 1 and the greatest at position 0.
C17_Witness ==
  /\ last.op = "pop" /\ last.status = "ok"
  /\ Len(heap) = 3
  /\ Gain(heap[1]) > Gain(heap[3])
  /\ Gain(heap[3]) > Gain(heap[2])

====
